---------------------------- MODULE Spec2Model ----------------------------
(***************************************************************************)
(* Comparables analysis (src/steamlit.py, and the earlier variant kept as  *)
(* src/unnamed/part_000): the eligibility filter and ranking of            *)
(* find_comparables, the Streamlit script main() with its session state    *)
(* and navigation buttons, and the batch report loop behind the download   *)
(* button.                                                                 *)
(*                                                                         *)
(* A DataFrame is a record [rows, cols]: rows is the sequence of its rows  *)
(* in index order and cols the set of its column labels; a row is a        *)
(* function from the column labels to cell values.  Positions are 0-based  *)
(* in the code (iloc) and 1-based in TLA+ sequences: iloc[i] is rows[i+1]. *)
(* The numeric columns (VPR, Market Value-2024) hold integers; a text cell *)
(* that is empty in the CSV is the missing value NaN.                      *)
(***************************************************************************)
EXTENDS Integers, Sequences, FiniteSets, TLC

VARIABLES
    uploaded_file,   \* the file uploader's value: None or the uploaded table
    data,            \* data = pd.read_csv(uploaded_file)
    session_state,   \* st.session_state: a mapping, with or without "current_index"
    error,           \* the exception that ended the last script run, or "none"
    subject_index,   \* local of main(): the subject's position (also the loop variable)
    comparables,     \* local of main(): the last value returned by find_comparables
    pc,              \* where the script is: idle between runs, or inside the batch loop
    results_list,    \* the batch loop's list of result_entry dicts
    errors,          \* the row numbers reported with st.error by the batch loop
    faults           \* how many iterations of this batch pass raised

vars == <<uploaded_file, data, session_state, error, subject_index, comparables,
          pc, results_list, errors, faults>>

-----------------------------------------------------------------------------
(* Bounds of the model *)

\* The largest number of rows of a dataset.
MaxRows == 8

\* The largest number of iterations of one batch pass that raise.
MaxFaults == 2

-----------------------------------------------------------------------------
(* Values *)

\* Python's None: the empty tuple; a present value v is held as <<v>>.
None == <<>>

\* The missing value read_csv gives an empty cell.
NaN == "NaN"

Cell(v) == <<v>>

Min(a, b) == IF a <= b THEN a ELSE b

Abs(x) == IF x < 0 THEN -x ELSE x

\* pandas' elementwise != and == on text cells: a missing value differs from
\* everything, itself included, and equals nothing.
Ne(a, b) == a = NaN \/ b = NaN \/ a # b

Eq(a, b) == a # NaN /\ b # NaN /\ a = b

-----------------------------------------------------------------------------
(* Columns *)

IdentityFields ==
    {"Hotel Name", "Property Address", "Owner Name/ LLC Name", "Owner Street Address"}

\* The columns find_comparables reads.
FilterColumns ==
    IdentityFields \cup {"Hotel Class", "Type", "Market Value-2024", "VPR"}

\* The fields of a result_entry, in the order the dict is built.
ReportFields ==
    <<"VPR", "Hotel Name", "Property Address", "Market Value-2024", "Hotel Class",
      "Owner Name/ LLC Name", "Owner Street Address", "Type", "account number">>

AllColumns == {ReportFields[k] : k \in 1..Len(ReportFields)}

DiffColumns == {"Market_Value_Diff", "VPU_VPR_Diff"}

\* pd.DataFrame(): no rows, no columns.
EmptyFrame == [rows |-> <<>>, cols |-> {}]

Row(name, address, owner, owner_address, class, type, value, vpr, account) ==
    ("Hotel Name" :> name) @@ ("Property Address" :> address) @@
    ("Owner Name/ LLC Name" :> owner) @@ ("Owner Street Address" :> owner_address) @@
    ("Hotel Class" :> class) @@ ("Type" :> type) @@
    ("Market Value-2024" :> value) @@ ("VPR" :> vpr) @@ ("account number" :> account)

\* A row cut down to the columns cs.
Project(row, cs) == [c \in cs |-> row[c]]

-----------------------------------------------------------------------------
(* find_comparables, src/steamlit.py *)

\* The width of the value band on each side of the subject's value.
ValueBand == 100000

\* head(5)
TopN == 5

\* (dataset[c] != subject_property[c]) for each of the four identity columns
IdentityDistinct(row, subject_property) ==
    /\ Ne(row["Hotel Name"], subject_property["Hotel Name"])
    /\ Ne(row["Property Address"], subject_property["Property Address"])
    /\ Ne(row["Owner Name/ LLC Name"], subject_property["Owner Name/ LLC Name"])
    /\ Ne(row["Owner Street Address"], subject_property["Owner Street Address"])

\* dataset['Market Value-2024'] within subject's value - 100000 .. + 100000
InValueBand(value, subject_value) ==
    /\ value >= subject_value - ValueBand
    /\ value <= subject_value + ValueBand

\* dataset['VPR'] >= subject's VPR / 2 and <= subject's VPR.  The division is
\* exact in the code (floats): vpr >= subject_vpr / 2 iff 2 * vpr >= subject_vpr.
InRatioBand(vpr, subject_vpr) ==
    /\ 2 * vpr >= subject_vpr
    /\ vpr <= subject_vpr

\* The boolean mask of one row.
Mask(row, subject_property) ==
    /\ IdentityDistinct(row, subject_property)
    /\ Eq(row["Hotel Class"], subject_property["Hotel Class"])
    /\ row["Type"] = "Hotel"
    /\ InValueBand(row["Market Value-2024"], subject_property["Market Value-2024"])
    /\ InRatioBand(row["VPR"], subject_property["VPR"])

\* dataset[mask]: the rows the mask keeps, in dataset order.
Filter(rows, subject_property) ==
    LET Keep(row) == Mask(row, subject_property)
    IN  SelectSeq(rows, Keep)

\* The two difference columns added to a filtered row.
WithDiffs(row, subject_property) ==
    row @@
    ("Market_Value_Diff" :>
        Abs(row["Market Value-2024"] - subject_property["Market Value-2024"])) @@
    ("VPU_VPR_Diff" :> Abs(row["VPR"] - subject_property["VPR"]))

\* Row a sorts strictly before row b on the key columns by, compared in turn.
KeyLess(a, b, by) ==
    \E k \in 1..Len(by) :
        /\ a[by[k]] < b[by[k]]
        /\ \A j \in 1..(k - 1) : a[by[j]] = b[by[j]]

\* Mutant of InsertAt: a row goes before the rows with an equal key.
InsertAt_beforeEqual(sorted, row, by) ==
    Cardinality({k \in 1..Len(sorted) : KeyLess(sorted[k], row, by)})

\* Where a row goes in a sorted sequence: after every row that does not sort
\* after it (rows with an equal key keep their order).
InsertAt(sorted, row, by) ==
    Cardinality({k \in 1..Len(sorted) : ~KeyLess(row, sorted[k], by)})

\* DataFrame.sort_values(by=[...]) on several columns: ascending and stable.
RECURSIVE SortValues(_, _)
SortValues(rows, by) ==
    IF Len(rows) = 0 THEN <<>>
    ELSE LET sorted == SortValues(SubSeq(rows, 1, Len(rows) - 1), by)
             row    == rows[Len(rows)]
             k      == InsertAt(sorted, row, by)
         IN  SubSeq(sorted, 1, k) \o <<row>> \o SubSeq(sorted, k + 1, Len(sorted))

\* Mutant of HeadRows: no truncation.
HeadRows_untruncated(rows, n) == rows

\* DataFrame.head(n)
HeadRows(rows, n) == SubSeq(rows, 1, Min(n, Len(rows)))

\* The sort keys of src/steamlit.py, in order.
SortKeys == <<"Market_Value_Diff", "VPU_VPR_Diff">>

\* The value find_comparables returns: exc is the exception it raises ("none"
\* when it returns) and df the DataFrame returned.  Indexing a column the
\* dataset does not have raises KeyError.
find_comparables(subject_property, dataset) ==
    IF ~(FilterColumns \subseteq dataset.cols)
    THEN [exc |-> "KeyError", df |-> EmptyFrame]
    ELSE LET filtered == Filter(dataset.rows, subject_property)
         IN  IF Len(filtered) = 0
             THEN [exc |-> "none", df |-> EmptyFrame]
             ELSE LET diffs == [k \in 1..Len(filtered) |->
                                   WithDiffs(filtered[k], subject_property)]
                  IN  [exc |-> "none",
                       df  |-> [rows |-> HeadRows(SortValues(diffs, SortKeys), TopN),
                                cols |-> dataset.cols \cup DiffColumns]]

\* Mutant of DatasetAfterCall: the difference columns are assigned on the
\* dataset itself.
DatasetAfterCall_inPlace(subject_property, dataset) ==
    [rows |-> [k \in 1..Len(dataset.rows) |->
                  WithDiffs(dataset.rows[k], subject_property)],
     cols |-> dataset.cols \cup DiffColumns]

\* The caller's dataset after a call: the filter result is a copy, and the
\* difference columns are assigned on the copy only.
DatasetAfterCall(subject_property, dataset) == dataset

-----------------------------------------------------------------------------
(* find_comparables, src/unnamed/part_000: the earlier variant *)

\* dataset['VPR'] <= subject's VPR * 1.5, exact: 2 * vpr <= 3 * subject_vpr.
InRatioBand_part_000(vpr, subject_vpr) == 2 * vpr <= 3 * subject_vpr

Mask_part_000(row, subject_property) ==
    /\ IdentityDistinct(row, subject_property)
    /\ Eq(row["Hotel Class"], subject_property["Hotel Class"])
    /\ row["Type"] = "Hotel"
    /\ InValueBand(row["Market Value-2024"], subject_property["Market Value-2024"])
    /\ InRatioBand_part_000(row["VPR"], subject_property["VPR"])

Filter_part_000(rows, subject_property) ==
    LET Keep(row) == Mask_part_000(row, subject_property)
    IN  SelectSeq(rows, Keep)

\* The three difference columns of the variant.
WithDiffs_part_000(row, subject_property) ==
    LET d == WithDiffs(row, subject_property)
    IN  d @@ ("Combined_Diff" :> d["Market_Value_Diff"] + d["VPU_VPR_Diff"])

\* Mutant of SortKeys_part_000: the combined difference is not a sort key.
SortKeys_part_000_valueFirst == <<"Market_Value_Diff", "VPU_VPR_Diff">>

\* The sort keys of the variant, in order.
SortKeys_part_000 == <<"Combined_Diff", "Market_Value_Diff", "VPU_VPR_Diff">>

\* The variant has no early return: an empty filter result keeps its columns.
find_comparables_part_000(subject_property, dataset) ==
    IF ~(FilterColumns \subseteq dataset.cols)
    THEN [exc |-> "KeyError", df |-> EmptyFrame]
    ELSE LET filtered == Filter_part_000(dataset.rows, subject_property)
             diffs    == [k \in 1..Len(filtered) |->
                             WithDiffs_part_000(filtered[k], subject_property)]
         IN  [exc |-> "none",
              df  |-> [rows |-> HeadRows(SortValues(diffs, SortKeys_part_000), TopN),
                       cols |-> dataset.cols \cup DiffColumns \cup {"Combined_Diff"}]]

-----------------------------------------------------------------------------
(* Datasets *)

\* The rows the datasets of the model are made of.  Relative to the first
\* row (value 1000000, VPR 10, class A): rows 2 to 7 are eligible, on the
\* edges of both bands (3), with equal sort keys (2 and 5), with every
\* identity cell missing (6); rows 8 to 12 each fail one condition.  Rows 4
\* and 9, 2 and 5, 7 and 10 share one identity field, and but for it the
\* first of each pair is eligible for the second.
Catalog ==
    << Row("n1",  "a1",  "o1",  "s1",  "A", "Hotel", 1000000, 10, "acc1"),
       Row("n2",  "a2",  "o2",  "s2",  "A", "Hotel", 1050000,  6, "acc2"),
       Row("n3",  "a3",  "o3",  "s3",  "A", "Hotel", 1100000,  5, "acc3"),
       Row("n4",  "a4",  "o4",  "s4",  "A", "Hotel",  900000, 10, "acc4"),
       Row("n5",  "a2",  "o5",  "s5",  "A", "Hotel", 1050000,  6, "acc5"),
       Row(NaN,   NaN,   NaN,   NaN,   "A", "Hotel", 1000003, 10, NaN),
       Row("n7",  "a7",  "o7",  "s7",  "A", "Hotel", 1000001,  5, "acc7"),
       Row("n8",  "a8",  "o8",  "s1",  "A", "Hotel", 1000000, 10, "acc8"),
       Row("n4",  "a9",  "o9",  "s9",  "A", "Hotel", 1000000, 11, "acc9"),
       Row("n10", "a10", "o7",  "s10", "A", "Motel", 1000001,  5, "acc10"),
       Row("n11", "a11", "o11", "s11", "B", "Hotel", 1000000, 10, "acc11"),
       Row("n12", "a12", "o12", "s12", "A", "Hotel", 1100001, 10, "acc12") >>

\* The subsequences of s with at most n elements (order kept).
RECURSIVE SubSeqs(_, _)
SubSeqs(s, n) ==
    IF Len(s) = 0 \/ n = 0 THEN {<<>>}
    ELSE SubSeqs(Tail(s), n) \cup {<<Head(s)>> \o t : t \in SubSeqs(Tail(s), n - 1)}

\* A table with the rows given, cut down to the columns cs.
Frame(rows, cs) ==
    [rows |-> [k \in 1..Len(rows) |-> Project(rows[k], cs)], cols |-> cs]

\* The files of the model: the catalog's first rows or its last rows, with
\* every column or with one column left out.
MissingChoices == {{}, {"account number"}, {"VPR"}}

Files ==
    {Frame(SubSeq(Catalog, i, j), AllColumns \ m) :
        i \in 1..(Len(Catalog) + 1),
        j \in 0..Len(Catalog),
        m \in MissingChoices}

Uploads ==
    {f \in Files :
        /\ Len(f.rows) <= MaxRows
        /\ \/ Len(f.rows) = 0
           \/ f.rows[1] = Project(Catalog[1], f.cols)
           \/ f.rows[Len(f.rows)] = Project(Catalog[Len(Catalog)], f.cols)}

-----------------------------------------------------------------------------
(* main(), src/steamlit.py: one run of the script per user event *)

\* if prev_button and st.session_state.current_index > 0: current_index -= 1
PreviousIndex(current_index) ==
    IF current_index > 0 THEN current_index - 1 ELSE current_index

\* if next_button and st.session_state.current_index < len(data) - 1: current_index += 1
NextIndex(current_index, len_data) ==
    IF current_index < len_data - 1 THEN current_index + 1 ELSE current_index

\* if "current_index" not in st.session_state: st.session_state.current_index = 0
InitialIndex(state) ==
    IF "current_index" \in DOMAIN state THEN state["current_index"] ELSE 0

\* The merge of a sequence of mappings with disjoint keys.
RECURSIVE MergeAll(_)
MergeAll(fs) ==
    IF Len(fs) = 0 THEN <<>>
    ELSE IF Len(fs) = 1 THEN fs[1]
    ELSE fs[1] @@ MergeAll(Tail(fs))

\* prefix = f'comp{i+1} ' for i in range(5)
Prefix(i) == "comp" \o ToString(i + 1) \o " "

\* The subject's nine entries: the cell, or None when data lacks the column.
SubjectEntries(subject_property, data_cols) ==
    MergeAll([k \in 1..Len(ReportFields) |->
        ReportFields[k] :>
            (IF ReportFields[k] \in data_cols
             THEN Cell(subject_property[ReportFields[k]]) ELSE None)])

\* Mutant of SlotEntries: a slot past the comparables found gets no entries.
SlotEntries_noPadding(i, comps) ==
    IF i < Len(comps.rows)
    THEN MergeAll([k \in 1..Len(ReportFields) |->
             (Prefix(i) \o ReportFields[k]) :>
                 (IF ReportFields[k] \in comps.cols
                  THEN Cell(comps.rows[i + 1][ReportFields[k]]) ELSE None)])
    ELSE <<>>

\* The nine entries of slot i (0-based): comparables.iloc[i]'s cells when
\* i < len(comparables), None otherwise.
SlotEntries(i, comps) ==
    MergeAll([k \in 1..Len(ReportFields) |->
        (Prefix(i) \o ReportFields[k]) :>
            (IF i < Len(comps.rows) /\ ReportFields[k] \in comps.cols
             THEN Cell(comps.rows[i + 1][ReportFields[k]]) ELSE None)])

\* The dict appended to results_list for one subject.
result_entry(subject_property, comps, data_cols) ==
    SubjectEntries(subject_property, data_cols) @@
    MergeAll([i \in 1..TopN |-> SlotEntries(i - 1, comps)])

\* Mutant of AfterError: the except clause leaves the loop.
AfterError_break(i, len_data) == len_data

\* The loop variable after an iteration that raised: except ... continue.
AfterError(i, len_data) == i + 1

\* One run of the script up to the download button, for the uploader's value
\* file and the buttons pressed.  A run that raises ends there: Streamlit
\* shows the exception and renders nothing that follows.
ScriptRun(file, prev_button, next_button, download_button) ==
    /\ pc \in {"idle", "done"}
    /\ uploaded_file' = file
    /\ results_list' = <<>>
    /\ errors' = <<>>
    /\ faults' = 0
    /\ IF file = None
       THEN /\ data' = EmptyFrame
            /\ UNCHANGED session_state
            /\ error' = "none"
            /\ subject_index' = 0
            /\ comparables' = EmptyFrame
            /\ pc' = "idle"
       ELSE LET read    == file[1]
                index0  == InitialIndex(session_state)
                index1  == IF prev_button THEN PreviousIndex(index0) ELSE index0
                index2  == IF next_button
                           THEN NextIndex(index1, Len(read.rows)) ELSE index1
            IN  /\ session_state' = ("current_index" :> index2)
                /\ IF index2 >= Len(read.rows)
                   THEN \* data.iloc[subject_index] raises
                        /\ data' = read
                        /\ subject_index' = index2
                        /\ error' = "IndexError"
                        /\ comparables' = EmptyFrame
                        /\ pc' = "idle"
                   ELSE LET subject_property == read.rows[index2 + 1]
                            found == find_comparables(subject_property, read)
                        IN  /\ data' = DatasetAfterCall(subject_property, read)
                            /\ error' = found.exc
                            /\ comparables' = found.df
                            /\ IF found.exc = "none" /\ download_button
                               THEN /\ pc' = "batch"
                                    /\ subject_index' = 0
                               ELSE /\ pc' = "idle"
                                    /\ subject_index' = index2

\* Buttons exist only in what the last run rendered.
NavigationRendered == uploaded_file # None

DownloadRendered == uploaded_file # None /\ error = "none"

\* The user puts a file in the uploader.
Upload(file) == ScriptRun(<<file>>, FALSE, FALSE, FALSE)

\* The user takes the file out of the uploader.
ClearFile ==
    /\ uploaded_file # None
    /\ ScriptRun(None, FALSE, FALSE, FALSE)

Previous ==
    /\ NavigationRendered
    /\ ScriptRun(uploaded_file, TRUE, FALSE, FALSE)

Next_ ==
    /\ NavigationRendered
    /\ ScriptRun(uploaded_file, FALSE, TRUE, FALSE)

\* The download button starts the batch loop, in the same run.
Download ==
    /\ DownloadRendered
    /\ ScriptRun(uploaded_file, FALSE, FALSE, TRUE)

\* One iteration of for subject_index in range(len(data)): the try body,
\* which appends the subject's result_entry, or the except clause when
\* find_comparables raises.  During the loop subject_index is the iteration
\* to run next.
BatchIteration ==
    /\ pc = "batch"
    /\ subject_index < Len(data.rows)
    /\ LET subject_property == data.rows[subject_index + 1]
           found == find_comparables(subject_property, data)
       IN  /\ data' = DatasetAfterCall(subject_property, data)
           /\ comparables' = found.df
           /\ IF found.exc = "none"
              THEN /\ results_list' = Append(results_list,
                          result_entry(subject_property, found.df, data.cols))
                   /\ errors' = errors
                   /\ subject_index' = subject_index + 1
              ELSE /\ results_list' = results_list
                   /\ errors' = Append(errors, subject_index)
                   /\ subject_index' = AfterError(subject_index, Len(data.rows))
    /\ UNCHANGED <<uploaded_file, session_state, error, pc, faults>>

\* An iteration whose try body raises some other exception: it is caught,
\* reported with st.error, and the loop goes on.
BatchIterationRaises ==
    /\ pc = "batch"
    /\ subject_index < Len(data.rows)
    /\ faults < MaxFaults
    /\ faults' = faults + 1
    /\ errors' = Append(errors, subject_index)
    /\ subject_index' = AfterError(subject_index, Len(data.rows))
    /\ UNCHANGED <<uploaded_file, data, session_state, error, comparables, pc,
                   results_list>>

\* The loop is over: result_df = pd.DataFrame(results_list), and the report
\* is offered for download.
BatchFinish ==
    /\ pc = "batch"
    /\ subject_index >= Len(data.rows)
    /\ pc' = "done"
    /\ UNCHANGED <<uploaded_file, data, session_state, error, subject_index,
                   comparables, results_list, errors, faults>>

Init ==
    /\ uploaded_file = None
    /\ data = EmptyFrame
    /\ session_state = <<>>
    /\ error = "none"
    /\ subject_index = 0
    /\ comparables = EmptyFrame
    /\ pc = "idle"
    /\ results_list = <<>>
    /\ errors = <<>>
    /\ faults = 0

Next ==
    \/ \E file \in Uploads : Upload(file)
    \/ ClearFile
    \/ Previous
    \/ Next_
    \/ Download
    \/ BatchIteration
    \/ BatchIterationRaises
    \/ BatchFinish

Spec == Init /\ [][Next]_vars

-----------------------------------------------------------------------------
(* find_comparables on its own: one call for a subject of a dataset *)

\* The datasets of the calls: every selection of at most MaxRows catalog
\* rows, in catalog order, with every column.
Datasets == {Frame(rows, AllColumns) : rows \in SubSeqs(Catalog, MaxRows)}

\* subject_property = data.iloc[subject_index]
InitEngine ==
    /\ data \in Datasets
    /\ uploaded_file = <<data>>
    /\ subject_index \in 0..(Len(data.rows) - 1)
    /\ session_state = ("current_index" :> subject_index)
    /\ error = "none"
    /\ comparables = EmptyFrame
    /\ pc = "call"
    /\ results_list = <<>>
    /\ errors = <<>>
    /\ faults = 0

\* comparables = find_comparables(subject_property, data), src/steamlit.py
CallFindComparables ==
    /\ pc = "call"
    /\ LET subject_property == data.rows[subject_index + 1]
           found == find_comparables(subject_property, data)
       IN  /\ data' = DatasetAfterCall(subject_property, data)
           /\ comparables' = found.df
           /\ error' = found.exc
    /\ pc' = "steamlit.py"
    /\ UNCHANGED <<uploaded_file, session_state, subject_index, results_list,
                   errors, faults>>

\* comparables = find_comparables(subject_property, data), src/unnamed/part_000
CallFindComparablesPart000 ==
    /\ pc = "call"
    /\ LET subject_property == data.rows[subject_index + 1]
           found == find_comparables_part_000(subject_property, data)
       IN  /\ data' = DatasetAfterCall(subject_property, data)
           /\ comparables' = found.df
           /\ error' = found.exc
    /\ pc' = "part_000"
    /\ UNCHANGED <<uploaded_file, session_state, subject_index, results_list,
                   errors, faults>>

NextEngine ==
    \/ CallFindComparables
    \/ CallFindComparablesPart000

SpecEngine == InitEngine /\ [][NextEngine]_vars

-----------------------------------------------------------------------------
(* Claims about find_comparables, checked under SpecEngine *)

\* C1: no record returned by find_comparables (either variant) has the same
\* value as the subject in any of the four identity fields; in particular the
\* subject, a row of the dataset, is never in its own result.
C1_IdentityExclusion ==
    pc \in {"steamlit.py", "part_000"} =>
        LET S == data.rows[subject_index + 1]
        IN  \A k \in 1..Len(comparables.rows) :
                /\ \A f \in IdentityFields : comparables.rows[k][f] # S[f]
                /\ Project(comparables.rows[k], AllColumns) # S

\* C2: under src/steamlit.py a record c of the dataset is eligible for the
\* subject S exactly when it shares no identity field with S, has S's class,
\* has type "Hotel", has its value within 100000 of S's value and its ratio
\* between half of S's ratio and S's ratio, bounds included: every returned
\* record is such a record, and when at most 5 records are, all are returned.
C2_TwoSidedEligibility ==
    pc = "steamlit.py" =>
        LET S == data.rows[subject_index + 1]
            Eligible(c) ==
                /\ \A f \in IdentityFields : c[f] # S[f]
                /\ c["Hotel Class"] = S["Hotel Class"]
                /\ c["Type"] = "Hotel"
                /\ S["Market Value-2024"] - 100000 <= c["Market Value-2024"]
                /\ c["Market Value-2024"] <= S["Market Value-2024"] + 100000
                /\ S["VPR"] <= 2 * c["VPR"]
                /\ c["VPR"] <= S["VPR"]
            eligible == {k \in 1..Len(data.rows) : Eligible(data.rows[k])}
            returned == {Project(comparables.rows[j], AllColumns) :
                            j \in 1..Len(comparables.rows)}
        IN  /\ error = "none"
            /\ returned \subseteq {data.rows[k] : k \in eligible}
            /\ Cardinality(eligible) <= 5 =>
                   {data.rows[k] : k \in eligible} \subseteq returned

\* C3: the result has at most 5 records; when fewer than 5 records pass the
\* filter the result is exactly those records, in sorted order; when none
\* passes, the result is an empty sequence and nothing is raised.
C3_TopNBound ==
    pc \in {"steamlit.py", "part_000"} =>
        LET S == data.rows[subject_index + 1]
            eligible == IF pc = "steamlit.py"
                        THEN Filter(data.rows, S) ELSE Filter_part_000(data.rows, S)
            result == comparables.rows
            VD(r) == Abs(r["Market Value-2024"] - S["Market Value-2024"])
            RD(r) == Abs(r["VPR"] - S["VPR"])
            Key(r) == IF pc = "steamlit.py" THEN <<0, VD(r), RD(r)>>
                      ELSE <<VD(r) + RD(r), VD(r), RD(r)>>
            Before(a, b) ==
                \E k \in 1..3 : a[k] < b[k] /\ \A j \in 1..(k - 1) : a[j] = b[j]
        IN  /\ Len(result) <= 5
            /\ Len(eligible) < 5 =>
                   /\ Len(result) = Len(eligible)
                   /\ {Project(result[j], AllColumns) : j \in 1..Len(result)}
                          = {eligible[k] : k \in 1..Len(eligible)}
                   /\ \A j \in 1..(Len(result) - 1) :
                          ~Before(Key(result[j + 1]), Key(result[j]))
            /\ Len(eligible) = 0 => (Len(result) = 0 /\ error = "none")

\* C3 witness: a call of src/steamlit.py with three eligible records, all
\* returned, in an order that is not the dataset's.
C3_Witness ==
    /\ pc = "steamlit.py"
    /\ Len(Filter(data.rows, data.rows[subject_index + 1])) = 3
    /\ Len(comparables.rows) = 3
    /\ Project(comparables.rows[1], AllColumns)
           # Filter(data.rows, data.rows[subject_index + 1])[1]

\* C4: under src/steamlit.py the result is the first min(5, n) of the n
\* eligible records in ascending order of (value_diff, ratio_diff): adjacent
\* results are in key order, results with equal keys are in dataset order,
\* and a record left out has no smaller key than a record kept, nor an equal
\* key and an earlier place in the dataset.
C4_ValueFirstOrder ==
    pc = "steamlit.py" =>
        LET S == data.rows[subject_index + 1]
            eligible == Filter(data.rows, S)
            result == comparables.rows
            VD(r) == Abs(r["Market Value-2024"] - S["Market Value-2024"])
            RD(r) == Abs(r["VPR"] - S["VPR"])
            Less(a, b) == VD(a) < VD(b) \/ (VD(a) = VD(b) /\ RD(a) < RD(b))
            Tied(a, b) == VD(a) = VD(b) /\ RD(a) = RD(b)
            Pos(r) == CHOOSE k \in 1..Len(data.rows) :
                          data.rows[k] = Project(r, AllColumns)
            kept == {Project(result[j], AllColumns) : j \in 1..Len(result)}
        IN  /\ Len(result) = Min(5, Len(eligible))
            /\ kept \subseteq {eligible[k] : k \in 1..Len(eligible)}
            /\ \A j \in 1..Len(result) :
                   /\ result[j]["Market_Value_Diff"] = VD(result[j])
                   /\ result[j]["VPU_VPR_Diff"] = RD(result[j])
            /\ \A j \in 1..(Len(result) - 1) :
                   /\ ~Less(result[j + 1], result[j])
                   /\ Tied(result[j], result[j + 1]) =>
                          Pos(result[j]) < Pos(result[j + 1])
            /\ \A k \in 1..Len(eligible) :
                   eligible[k] \notin kept =>
                       \A j \in 1..Len(result) :
                           /\ ~Less(eligible[k], result[j])
                           /\ Tied(eligible[k], result[j]) =>
                                  Pos(result[j]) < Pos(eligible[k])

\* C4 witness: six eligible records cut to five, two of the five with equal
\* keys, and the first of the five not the first eligible of the dataset.
C4_Witness ==
    /\ pc = "steamlit.py"
    /\ Len(Filter(data.rows, data.rows[subject_index + 1])) = 6
    /\ Len(comparables.rows) = 5
    /\ \E j \in 1..4 :
           /\ comparables.rows[j]["Market_Value_Diff"]
                  = comparables.rows[j + 1]["Market_Value_Diff"]
           /\ comparables.rows[j]["VPU_VPR_Diff"]
                  = comparables.rows[j + 1]["VPU_VPR_Diff"]
    /\ Project(comparables.rows[1], AllColumns)
           # Filter(data.rows, data.rows[subject_index + 1])[1]

-----------------------------------------------------------------------------
(* Claims about the script and its batch loop, checked under Spec *)

\* C6: the batch report has at most len(data) rows, every row has exactly the
\* 54 columns (9 subject fields and 9 fields for each of comp1..comp5), and in
\* the row of a subject with k comparables slots 1..k hold the comparables in
\* rank order and every column of slots k+1..5 is blank (all 45 when k = 0).
C6_BatchShape ==
    LET labels == AllColumns \cup
                  {"comp" \o ToString(slot) \o " " \o f :
                       slot \in 1..5, f \in AllColumns}
        RowOf(row, i) ==
            LET S     == data.rows[i + 1]
                comps == find_comparables(S, data).df.rows
            IN  /\ \A f \in data.cols : row[f] = <<S[f]>>
                /\ \A slot \in 1..5 : \A f \in AllColumns :
                       row["comp" \o ToString(slot) \o " " \o f] =
                           IF slot <= Len(comps) /\ f \in data.cols
                           THEN <<comps[slot][f]>> ELSE None
    IN  /\ Len(results_list) <= Len(data.rows)
        /\ \A j \in 1..Len(results_list) :
               /\ DOMAIN results_list[j] = labels
               /\ Cardinality(DOMAIN results_list[j]) = 54
               /\ \E i \in 0..(Len(data.rows) - 1) : RowOf(results_list[j], i)

\* C6 witness: a finished report with the row of a subject without
\* comparables, its 45 slot columns blank, and the row of a subject with a
\* first comparable and no fifth.
C6_Witness ==
    /\ pc = "done"
    /\ \E j \in 1..Len(results_list) :
           \A slot \in 1..5 : \A f \in AllColumns :
               results_list[j]["comp" \o ToString(slot) \o " " \o f] = None
    /\ \E j \in 1..Len(results_list) :
           /\ results_list[j]["comp1 VPR"] # None
           /\ results_list[j]["comp5 VPR"] = None

\* C7: a column of the nine report fields that the dataset lacks is
\* tolerated: no run raises because of it, and the report has a row for
\* every subject, with that attribute blank.
C7_SchemaGapTolerated ==
    \A f \in AllColumns :
        (uploaded_file # None /\ f \notin data.cols) =>
            /\ error # "KeyError"
            /\ pc = "done" =>
                   /\ Len(results_list) + Len(errors) = Len(data.rows)
                   /\ Len(errors) = faults
                   /\ \A j \in 1..Len(results_list) : results_list[j][f] = None

\* C8: when iterations of the batch loop raise, exactly their rows are
\* missing: the loop goes on to the last subject, and every other subject
\* has its one row, equal to the row built for it alone, in dataset order.
C8_PerRowFailure ==
    pc = "done" =>
        LET n == Len(data.rows)
            failed == {errors[k] : k \in 1..Len(errors)}
        IN  /\ failed \subseteq 0..(n - 1)
            /\ \A k \in 1..(Len(errors) - 1) : errors[k] < errors[k + 1]
            /\ Len(results_list) + Len(errors) = n
            /\ \A i \in 0..(n - 1) :
                   i \notin failed =>
                       results_list[i + 1 - Cardinality({e \in failed : e < i})]
                           = result_entry(data.rows[i + 1],
                                          find_comparables(data.rows[i + 1], data).df,
                                          data.cols)

\* C8 witness: a finished pass in which an iteration raised and a later
\* subject has its row.
C8_Witness ==
    /\ pc = "done"
    /\ Len(errors) >= 1
    /\ Len(results_list) >= 2
    /\ errors[Len(errors)] < Len(data.rows) - 1

\* C9: find_comparables leaves its dataset as read from the file, same rows,
\* same order, same columns, after every call and through a batch pass; the
\* difference columns are columns of the returned frame only.
C9_DatasetUnchanged ==
    /\ uploaded_file # None => data = uploaded_file[1]
    /\ data.cols \cap DiffColumns = {}
    /\ Len(comparables.rows) > 0 => DiffColumns \subseteq comparables.cols

\* C9 witness: a finished batch pass of several calls, the last of which
\* returned comparables.
C9_Witness ==
    /\ pc = "done"
    /\ Len(results_list) >= 3
    /\ Len(comparables.rows) > 0

\* C10: whenever a dataset with rows is loaded, current_index is a position
\* of it: 0 <= current_index <= len(data) - 1.
C10_IndexValid ==
    (uploaded_file # None /\ Len(data.rows) > 0) =>
        /\ "current_index" \in DOMAIN session_state
        /\ 0 <= session_state["current_index"]
        /\ session_state["current_index"] <= Len(data.rows) - 1

=============================================================================
